---- MODULE Spec2Model ----
(***************************************************************************)
(* Ground Plane Fitting (GPF) and Scan-Line Run (SLR) clustering of        *)
(* pfc_packages/gpf_slr.py as state machines.                              *)
(*                                                                         *)
(* A point is a record with the columns of the N x 6 array                 *)
(*   [x, y, z, true_label, predicted_label, scanline_id].                  *)
(* Coordinates and thresholds are integers; a comparison dist < t of the   *)
(* code is made on squares (dist^2 < t^2, t >= 0).                         *)
(*                                                                         *)
(* SpecLabels is the label column of scan_line_run_clustering: the runs of *)
(* each scanline and the answer of the KDTree query of each run are        *)
(* inputs, so every sequence of allocations and unions is explored.        *)
(* Spec is the whole function on small clouds with coordinates: run        *)
(* finding, nearest-neighbour queries and the write-back to the rows.      *)
(* SpecUnion is the dict label -> label under arbitrary unions.            *)
(* SpecGpf is refine_ground_plane; the SVD fit is a plane through the      *)
(* centroid of the seeds with a normal drawn from Directions.              *)
(* SpecOrder is Spec on clouds of up to three scanlines.                   *)
(* SpecRuns, SpecGroups and SpecSeeds apply find_runs, group_by_scanline   *)
(* and extract_initial_seed_indices to every input of a bounded set.       *)
(***************************************************************************)
EXTENDS Integers, Sequences, FiniteSets, TLC

VARIABLES
    point_cloud,          \* the N x 6 array given to the function
    entry_cloud,          \* history: point_cloud as it was at entry
    non_ground_indices,   \* rows of point_cloud with predicted_label == 0
    scan_idx,             \* scan_line_run_clustering: i, the current scanline
    run_idx,              \* position of the loop over the runs of a scanline
    pc,                   \* position in the function being executed
    label_counter,        \* scan_line_run_clustering: label_counter
    global_label_counter, \* update_labels: global_label_counter
    label_equivalences,   \* the dict label -> label
    runs_above,           \* list of runs of the previous scanline
    runs_current,         \* list of runs of the current scanline
    scanlines,            \* list of scanlines (each the vstack of its runs)
    clustered_points,     \* result of extract_clusters
    points_seen,          \* history: number of non-ground points met so far
    links,                \* history: (run, neighbouring run above) pairs
    merged,               \* history: classes of labels unified so far
    unioned,              \* history: the label sets given to union calls
    roots_only,           \* history: every union call was given roots only
    num_points,           \* refine_ground_plane: parameter num_points
    num_iterations,       \* refine_ground_plane: parameter num_iterations
    seed_indices,         \* refine_ground_plane: indices of the seed rows
    plane,                \* refine_ground_plane: (normal, d)
    iteration,            \* refine_ground_plane: iterations completed
    fits,                 \* history: seed set and plane of each iteration
    scanline_points,      \* find_runs: parameter scanline_points
    runs,                 \* find_runs: runs
    forward_runs          \* history: runs as the forward pass left them

vars == <<point_cloud, entry_cloud, non_ground_indices, scan_idx, run_idx, pc, label_counter, global_label_counter, label_equivalences,
          runs_above, runs_current, scanlines, clustered_points,
          points_seen, links, merged, unioned, roots_only, num_points,
          num_iterations, seed_indices, plane, iteration, fits,
          scanline_points, runs, forward_runs>>

\* variables of the run on a whole cloud only
cloudVars == <<entry_cloud, non_ground_indices, scan_idx, run_idx>>

\* history variables of SpecLabels
labelHistory == <<points_seen, links, merged>>

\* history variables of SpecUnion
unionVars == <<unioned, roots_only>>

\* variables of find_runs
runVars == <<scanline_points, runs, forward_runs>>

\* variables of refine_ground_plane
gpfVars == <<num_points, num_iterations, seed_indices, plane, iteration, fits>>

\* normal and d before the first iteration has bound them
Unbound == [kind |-> "unbound", normal |-> <<0, 0, 0>>, num |-> 0, den |-> 1]

----------------------------------------------------------------------------
(* Bounds *)

\* non-ground points of the cloud in SpecLabels
MaxPoints == 9

\* distinct runs above that one run can be close to
MaxNeighbours == 2

\* scanlines of the cloud in SpecLabels
MaxScanlines == 3

\* runs of one scanline after the first in SpecLabels
MaxRuns == 2

(* Program constants *)

\* the ground sentinel
GROUND == 9

\* outcomes of a dict lookup that raises / of a walk that never ends
KeyError == -1

Diverges == -2

----------------------------------------------------------------------------
(* Helpers on sets, sequences and dicts *)

Min(S) == CHOOSE x \in S : \A y \in S : x <= y

Max(S) == CHOOSE x \in S : \A y \in S : y <= x

Keys(d) == DOMAIN d

Values(d) == {d[k] : k \in DOMAIN d}

\* d[k] = v
Put(d, k, v) == [x \in (DOMAIN d) \cup {k} |-> IF x = k THEN v ELSE d[x]]

\* d[k], raising KeyError for a missing key
Get(d, k) == IF k \in DOMAIN d THEN d[k] ELSE KeyError

RECURSIVE Vstack(_)
\* np.vstack of a list of arrays: the rows of all, in order
Vstack(arrays) ==
    IF arrays = <<>> THEN <<>> ELSE Head(arrays) \o Vstack(Tail(arrays))

\* run[:, 4] = label
SetLabel(run, label) ==
    [k \in DOMAIN run |-> [run[k] EXCEPT !.predicted_label = label]]

\* the true_label column of an array, as a set (the identity of its points)
Ids(run) == {run[k].true_label : k \in DOMAIN run}

----------------------------------------------------------------------------
(* update_labels and its nested functions *)

RECURSIVE Walk(_, _, _)
Walk(d, label, fuel) ==
    IF label \notin DOMAIN d THEN KeyError
    ELSE IF label = d[label] THEN label
    ELSE IF fuel = 0 THEN Diverges
    ELSE Walk(d, d[label], fuel - 1)

\* mutant of resolve_label: a single lookup instead of the chain walk
ResolveOneStep(d, label) == Get(d, label)

\* while label != label_equivalences[label]: label = label_equivalences[label]
resolve_label(d, label) == Walk(d, label, Cardinality(DOMAIN d))

RECURSIVE SkipUsedKeysOnly(_, _)
\* mutant of SkipUsed: the test counter == 9 is left out
SkipUsedKeysOnly(d, counter) ==
    IF counter \in DOMAIN d THEN SkipUsedKeysOnly(d, counter + 1) ELSE counter

RECURSIVE SkipNineOnly(_, _)
\* mutant of SkipUsed: the test counter in label_equivalences is left out
SkipNineOnly(d, counter) ==
    IF counter = GROUND THEN SkipNineOnly(d, counter + 1) ELSE counter

RECURSIVE SkipUsed(_, _)
\* while counter == 9 or counter in label_equivalences: counter += 1
SkipUsed(d, counter) ==
    IF counter = GROUND \/ counter \in DOMAIN d
    THEN SkipUsed(d, counter + 1) ELSE counter

\* mutant of assign_new_label: the counter is used as it is
AssignWithoutSkip(d, counter) ==
    [label |-> counter, mapping |-> Put(d, counter, counter),
     counter |-> counter + 1]

\* mutant of assign_new_label: the label is not stored in the dict
AssignUnregistered(d, counter) ==
    LET l == SkipUsed(d, counter)
    IN  [label |-> l, mapping |-> d, counter |-> l + 1]

\* the label given to the run, the dict and the counter returned
assign_new_label(d, counter) ==
    LET l == SkipUsed(d, counter)
    IN  [label |-> l, mapping |-> Put(d, l, l), counter |-> l + 1]

RECURSIVE UnifyAll(_, _, _)
UnifyAll(d, todo, min_label) ==
    IF todo = {} THEN d
    ELSE LET lbl == CHOOSE l \in todo : TRUE
         IN  UnifyAll(Put(d, lbl, min_label), todo \ {lbl}, min_label)

\* mutant of inherit_and_unify_labels: the largest label becomes the root
InheritMaxLabel(d, neighbor_labels) ==
    LET max_label == Max(neighbor_labels)
    IN  [label |-> max_label, mapping |-> UnifyAll(d, neighbor_labels, max_label)]

\* the label given to the run and the dict after the union
inherit_and_unify_labels(d, neighbor_labels) ==
    LET min_label == Min(neighbor_labels)
    IN  [label |-> min_label, mapping |-> UnifyAll(d, neighbor_labels, min_label)]

\* global_label_counter = max(label_equivalences.values()) + 1
InitialCounter(d) == Max(Values(d)) + 1

\* mutant of FirstLabel: 9 is not reserved
FirstLabelNoReserve(counter) == counter + 1

\* the first scanline: label_counter += 1, skipping 9
FirstLabel(counter) ==
    IF counter + 1 = GROUND THEN counter + 2 ELSE counter + 1

\* the body of the loop over runs_current, given the rows of points_above
\* that the KDTree query returned within merge_threshold
LabelRun(d, counter, run, close_points) ==
    LET neighbor_labels ==
            {resolve_label(d, p.predicted_label) : p \in close_points}
    IN  IF neighbor_labels = {}
        THEN LET a == assign_new_label(d, counter)
             IN  [run |-> SetLabel(run, a.label), mapping |-> a.mapping,
                  counter |-> a.counter, unified |-> {a.label}]
        ELSE LET u == inherit_and_unify_labels(d, neighbor_labels)
             IN  [run |-> SetLabel(run, u.label), mapping |-> u.mapping,
                  counter |-> counter, unified |-> neighbor_labels]

----------------------------------------------------------------------------
(* extract_clusters *)

\* non_ground_points[idx][4] = label_equivalences[non_ground_points[idx][4]]
FinalLabel(d, label) == Get(d, label)

extract_clusters(lines, d) ==
    LET non_ground_points == Vstack(lines)
    IN  [idx \in DOMAIN non_ground_points |->
            [non_ground_points[idx] EXCEPT
                !.predicted_label = FinalLabel(d, @)]]

----------------------------------------------------------------------------
(* scan_line_run_clustering: the write-back *)

\* mutant of WriteBack: the labels are written into the first rows
WriteBackToFirstRows(cloud, indices, clustered) ==
    [i \in DOMAIN cloud |->
        IF i \in DOMAIN clustered
        THEN [cloud[i] EXCEPT !.predicted_label = clustered[i].predicted_label]
        ELSE cloud[i]]

\* point_cloud[non_ground_indices, 4] = clustered_points[:, 4]
WriteBack(cloud, indices, clustered) ==
    [i \in DOMAIN cloud |->
        IF \E k \in DOMAIN indices : indices[k] = i
        THEN LET k == CHOOSE k \in DOMAIN indices :
                          indices[k] = i
             IN  [cloud[i] EXCEPT
                     !.predicted_label = clustered[k].predicted_label]
        ELSE cloud[i]]

----------------------------------------------------------------------------
(* History of the classes of labels unified so far *)

Merge(classes, labels) ==
    LET hit == {c \in classes : c \cap labels # {}}
    IN  (classes \ hit) \cup {(UNION hit) \cup labels}

----------------------------------------------------------------------------
(* SpecLabels: the label column of scan_line_run_clustering                *)

\* a new run of n points, identified by their arrival order
NewRun(n) ==
    [k \in 1..n |-> [true_label |-> points_seen + k, predicted_label |-> 0]]

InitLabels ==
    /\ point_cloud = <<>>
    /\ entry_cloud = <<>>
    /\ non_ground_indices = <<>>
    /\ scan_idx = 0
    /\ run_idx = 0
    /\ pc = "first"
    /\ label_counter = 0
    /\ global_label_counter = 0
    /\ label_equivalences = <<>>
    /\ runs_above = <<>>
    /\ runs_current = <<>>
    /\ scanlines = <<>>
    /\ clustered_points = <<>>
    /\ points_seen = 0
    /\ links = {}
    /\ merged = {}
    /\ unioned = {}
    /\ roots_only = TRUE
    /\ num_points = 0
    /\ num_iterations = 0
    /\ seed_indices = {}
    /\ plane = Unbound
    /\ iteration = 0
    /\ fits = <<>>
    /\ scanline_points = <<>>
    /\ runs = <<>>
    /\ forward_runs = <<>>

\* one iteration of the loop over the runs of the first scanline
FirstRunLabelled ==
    /\ pc = "first"
    /\ points_seen < MaxPoints
    /\ LET l == FirstLabel(label_counter)
       IN  /\ label_counter' = l
           /\ runs_above' = Append(runs_above, SetLabel(NewRun(1), l))
           /\ label_equivalences' = Put(label_equivalences, l, l)
           /\ merged' = Merge(merged, {l})
    /\ points_seen' = points_seen + 1
    /\ UNCHANGED <<cloudVars, unionVars, gpfVars, runVars>>
    /\ UNCHANGED <<point_cloud, pc, global_label_counter, runs_current, scanlines,
                   clustered_points, links>>

\* scanlines[0] = np.vstack(runs_above)
FirstScanlineDone ==
    /\ pc = "first"
    /\ runs_above # <<>>
    /\ scanlines' = <<Vstack(runs_above)>>
    /\ pc' = "next"
    /\ UNCHANGED <<cloudVars, unionVars, gpfVars, runVars>>
    /\ UNCHANGED <<point_cloud, label_counter, global_label_counter, label_equivalences,
                   runs_above, runs_current, clustered_points, points_seen,
                   links, merged>>

\* entry of update_labels for one more scanline
UpdateLabelsBegin ==
    /\ pc = "next"
    /\ points_seen < MaxPoints
    /\ Len(scanlines) < MaxScanlines
    /\ global_label_counter' = InitialCounter(label_equivalences)
    /\ runs_current' = <<>>
    /\ pc' = "update"
    /\ UNCHANGED <<cloudVars, unionVars, gpfVars, runVars>>
    /\ UNCHANGED <<point_cloud, label_counter, label_equivalences, runs_above, scanlines,
                   clustered_points, points_seen, links, merged>>

\* one iteration of the loop over runs_current; close is the set of runs
\* above holding the nearest neighbour, within merge_threshold, of a point
RunLabelled ==
    /\ pc = "update"
    /\ Len(runs_current) < MaxRuns
    /\ \E close \in SUBSET (DOMAIN runs_above) :
        LET n == IF close = {} THEN 1 ELSE Cardinality(close)
            run == NewRun(n)
            close_points == {runs_above[j][1] : j \in close}
            res == LabelRun(label_equivalences, global_label_counter, run,
                            close_points)
        IN  /\ Cardinality(close) <= MaxNeighbours
            /\ points_seen + n <= MaxPoints
            /\ points_seen' = points_seen + n
            /\ runs_current' = Append(runs_current, res.run)
            /\ label_equivalences' = res.mapping
            /\ global_label_counter' = res.counter
            /\ merged' = Merge(merged, res.unified)
            /\ links' = links \cup
                  {[run |-> Ids(run), above |-> Ids(runs_above[j])] : j \in close}
    /\ UNCHANGED <<cloudVars, unionVars, gpfVars, runVars>>
    /\ UNCHANGED <<point_cloud, pc, label_counter, runs_above, scanlines,
                   clustered_points>>

\* scanlines[i] = np.vstack(runs_current); runs_above = runs_current
UpdateLabelsEnd ==
    /\ pc = "update"
    /\ runs_current # <<>>
    /\ scanlines' = Append(scanlines, Vstack(runs_current))
    /\ runs_above' = runs_current
    /\ pc' = "next"
    /\ UNCHANGED <<cloudVars, unionVars, gpfVars, runVars>>
    /\ UNCHANGED <<point_cloud, label_counter, global_label_counter, label_equivalences,
                   runs_current, clustered_points, points_seen, links, merged>>

\* clustered_points = extract_clusters(scanlines, label_equivalences)
ClustersExtracted ==
    /\ pc = "next"
    /\ clustered_points' = extract_clusters(scanlines, label_equivalences)
    /\ pc' = "extracted"
    /\ UNCHANGED <<cloudVars, unionVars, gpfVars, runVars>>
    /\ UNCHANGED <<point_cloud, label_counter, global_label_counter,
                   label_equivalences, runs_above, runs_current, scanlines,
                   points_seen, links, merged>>

\* point_cloud[non_ground_indices, 4] = clustered_points[:, 4], on the
\* non-ground rows of the cloud (all 0 at entry), taken in scan order
LabelsWrittenBack ==
    /\ pc = "extracted"
    /\ point_cloud' = WriteBack(SetLabel(Vstack(scanlines), 0),
                                [k \in 1..points_seen |-> k], clustered_points)
    /\ pc' = "done"
    /\ UNCHANGED <<cloudVars, unionVars, gpfVars, runVars>>
    /\ UNCHANGED <<label_counter, global_label_counter, label_equivalences,
                   runs_above, runs_current, scanlines, clustered_points,
                   points_seen, links, merged>>

NextLabels ==
    \/ FirstRunLabelled
    \/ FirstScanlineDone
    \/ UpdateLabelsBegin
    \/ RunLabelled
    \/ UpdateLabelsEnd
    \/ ClustersExtracted
    \/ LabelsWrittenBack

SpecLabels == InitLabels /\ [][NextLabels]_vars

----------------------------------------------------------------------------
(* Claims checked under SpecLabels *)

\* the provisional label column at the end of propagation
Provisional == Vstack(scanlines)

\* the final label of the point with identity id
FinalOf(id) ==
    LET k == CHOOSE k \in DOMAIN clustered_points :
                 clustered_points[k].true_label = id
    IN  clustered_points[k].predicted_label

Finalized == pc \in {"extracted", "done"}

\* the class of labels that label has been unified with
ClassOf(label) == CHOOSE c \in merged : label \in c

(* C1: after all scanlines are processed, the final predicted_label of    *)
(* every non-ground point is resolve(label) of the provisional label it   *)
(* held at the end of propagation, a root L with mapping[L] = L.          *)
C1_FinalIsResolved ==
    Finalized =>
        \A k \in DOMAIN clustered_points :
            LET final == clustered_points[k].predicted_label
            IN  /\ final = resolve_label(label_equivalences,
                                         Provisional[k].predicted_label)
                /\ Get(label_equivalences, final) = final

(* C3: after finalization, all points of a run and all points of every    *)
(* run of the previous scanline that the run was found close to carry one *)
(* common cluster id.                                                     *)
C3_LinkedRunsShareCluster ==
    Finalized =>
        \A l \in links :
            \A a, b \in l.run \cup l.above : FinalOf(a) = FinalOf(b)

(* C4: when the function returns, every row that was 0 at entry holds a   *)
(* positive cluster id that is neither 0 nor the ground sentinel 9.       *)
C4_EveryPointClustered ==
    pc = "done" =>
        /\ Len(point_cloud) = points_seen
        /\ \A i \in DOMAIN point_cloud :
              /\ point_cloud[i].predicted_label \in Nat
              /\ point_cloud[i].predicted_label > 0
              /\ point_cloud[i].predicted_label # GROUND

\* a cloud of nine or more clusters has been returned, one labelled 10
C4_Witness ==
    /\ pc = "done"
    /\ Cardinality({point_cloud[i].predicted_label : i \in DOMAIN point_cloud}) >= 9
    /\ \E i \in DOMAIN point_cloud : point_cloud[i].predicted_label = 10

(* C8: in every reachable state, following the mapping from any key ends  *)
(* at a root r with mapping[r] = r (no cycle), and r is the smallest      *)
(* label of all labels merged into the same equivalence class.            *)
C8_RootIsSmallestOfClass ==
    \A k \in Keys(label_equivalences) :
        LET r == resolve_label(label_equivalences, k)
        IN  /\ r \in Keys(label_equivalences)
            /\ label_equivalences[r] = r
            /\ r = Min(ClassOf(k))

\* a chain of two steps: a root that had absorbed a label was itself
\* unified under a smaller label
C8_Witness ==
    \E k \in Keys(label_equivalences) :
        /\ label_equivalences[k] # k
        /\ label_equivalences[label_equivalences[k]] # label_equivalences[k]

(* C10: the mapping never has 9 as a key or as a value, and a key once    *)
(* registered is never removed.                                           *)
C10_NoGroundKeysOnlyGrow ==
    /\ [](GROUND \notin Keys(label_equivalences) \cup Values(label_equivalences))
    /\ [][Keys(label_equivalences) \subseteq Keys(label_equivalences')]_vars

\* the allocation passed over 9: labels 8 and 10 are both keys
C10_Witness ==
    {8, 10} \subseteq Keys(label_equivalences)

\* the smallest positive integer that is not 9 and not a key of d
SmallestUnused(d) ==
    Min({l \in 1..(Cardinality(DOMAIN d) + 2) :
            l # GROUND /\ l \notin DOMAIN d})

\* the label carried by the run appended last to a list of runs
LastLabel(run_list) == run_list[Len(run_list)][1].predicted_label

\* this step labelled a run of the first scanline
AllocatedFirst ==
    pc = "first" /\ Len(runs_above') = Len(runs_above) + 1

\* this step labelled a later run that has no neighbour in the scanline above
AllocatedLater ==
    /\ pc = "update"
    /\ Len(runs_current') = Len(runs_current) + 1
    /\ links' = links

(* C11: every time a run receives a newly allocated label (each run of    *)
(* the first scanline, each later run with no neighbour above), the label *)
(* is the smallest positive integer that is not 9 and not a key of the    *)
(* mapping at that moment, and it is registered as its own root.          *)
C11_NewLabelIsSmallestUnused ==
    [][/\ AllocatedFirst =>
            /\ LastLabel(runs_above') = SmallestUnused(label_equivalences)
            /\ label_equivalences' =
                  Put(label_equivalences, LastLabel(runs_above'),
                      LastLabel(runs_above'))
       /\ AllocatedLater =>
            /\ LastLabel(runs_current') = SmallestUnused(label_equivalences)
            /\ label_equivalences' =
                  Put(label_equivalences, LastLabel(runs_current'),
                      LastLabel(runs_current'))]_vars

\* the first run of a later scanline was given a new label l although the
\* counter derived from the largest value was at most a key k already in use
C11_Witness ==
    /\ pc = "update"
    /\ Len(runs_current) = 1
    /\ LET l == LastLabel(runs_current)
       IN  /\ l = global_label_counter - 1
           /\ Get(label_equivalences, l) = l
           /\ \E k \in Keys(label_equivalences) :
                 /\ k < l
                 /\ label_equivalences[k] # k
                 /\ Max(Values(label_equivalences) \ {l}) < k

RECURSIVE Components(_, _)
\* the classes of points connected by chains of the links ls, starting
\* from the classes given
Components(ls, classes) ==
    IF ls = {} THEN classes
    ELSE LET l == CHOOSE l \in ls : TRUE
         IN  Components(ls \ {l}, Merge(classes, l.run \cup l.above))

\* the classes of points whose runs are connected by a chain of
\* cross-scanline links (a run that is not linked to any run is a single
\* point here)
LinkClasses == Components(links, {{p} : p \in 1..points_seen})

\* the provisional label of the point with identity id
ProvisionalOf(id) ==
    LET k == CHOOSE k \in DOMAIN Provisional : Provisional[k].true_label = id
    IN  Provisional[k].predicted_label

(* C18: clusters are never over-merged: two points end with the same      *)
(* final cluster id only if their provisional labels are in the same      *)
(* equivalence class, that is, only if their runs are connected by a      *)
(* chain of cross-scanline links.                                         *)
C18_NeverOverMerged ==
    pc = "extracted" =>
        LET chained == LinkClasses
        IN  \A j, k \in DOMAIN clustered_points :
                (/\ j < k
                 /\ clustered_points[j].predicted_label
                        = clustered_points[k].predicted_label) =>
                    /\ ClassOf(Provisional[j].predicted_label)
                           = ClassOf(Provisional[k].predicted_label)
                    /\ \E c \in chained :
                          /\ clustered_points[j].true_label \in c
                          /\ clustered_points[k].true_label \in c

\* finalization kept two clusters apart although runs had been linked, and
\* two points of different provisional labels ended in one cluster
C18_Witness ==
    /\ Finalized
    /\ links # {}
    /\ \E a, b \in 1..points_seen : FinalOf(a) # FinalOf(b)
    /\ \E a, b \in 1..points_seen :
          /\ ProvisionalOf(a) # ProvisionalOf(b)
          /\ FinalOf(a) = FinalOf(b)

\* the labels carried by the points of the runs labelled so far
LabelsCarried ==
    {p.predicted_label :
        p \in {Vstack(runs_above)[k] : k \in DOMAIN Vstack(runs_above)}
              \cup {Vstack(runs_current)[k] : k \in DOMAIN Vstack(runs_current)}
              \cup {Provisional[k] : k \in DOMAIN Provisional}}

\* this step labelled a run
RunGotLabel ==
    \/ AllocatedFirst
    \/ pc = "update" /\ Len(runs_current') = Len(runs_current) + 1

\* the label of the run labelled by this step
LabelGiven ==
    IF pc = "first" THEN LastLabel(runs_above') ELSE LastLabel(runs_current')

(* C19: at every step the label carried by any point of an already       *)
(* labelled run is a key of the mapping, and the label given to a run is  *)
(* a root of the mapping at the moment it is given; the chain walk of     *)
(* resolve_label and the lookup at finalization never meet a label that   *)
(* is missing from the mapping.                                           *)
C19_CarriedLabelsAreKeys ==
    /\ [](/\ LabelsCarried \subseteq Keys(label_equivalences)
          /\ \A l \in LabelsCarried :
                resolve_label(label_equivalences, l)
                    \in Keys(label_equivalences)
          /\ \A k \in DOMAIN clustered_points :
                clustered_points[k].predicted_label # KeyError)
    /\ [][RunGotLabel => Get(label_equivalences', LabelGiven) = LabelGiven]_vars

\* the lookup at finalization met labels that were no longer roots
C19_Witness ==
    /\ Finalized
    /\ \E k \in DOMAIN Provisional :
          label_equivalences[Provisional[k].predicted_label]
              # Provisional[k].predicted_label
    /\ \E k \in DOMAIN clustered_points :
          label_equivalences[clustered_points[k].predicted_label]
              # clustered_points[k].predicted_label

----------------------------------------------------------------------------
(* Geometry *)

\* squared Euclidean distance of the x, y, z columns of two points
Dist2(p, q) ==
    (p.x - q.x) * (p.x - q.x) + (p.y - q.y) * (p.y - q.y)
        + (p.z - q.z) * (p.z - q.z)

\* mutant of Within: a distance equal to the threshold is within it
WithinOrEqual(p, q, threshold) ==
    threshold > 0 /\ Dist2(p, q) <= threshold * threshold

\* np.linalg.norm(p[:3] - q[:3]) < threshold
Within(p, q, threshold) == threshold > 0 /\ Dist2(p, q) < threshold * threshold

\* tree_above.query(p, k=1): the rows of above at the smallest distance
\* (which of several equally near rows the tree returns is not specified)
Nearest(p, above) ==
    {j \in DOMAIN above :
        \A k \in DOMAIN above : Dist2(p, above[j]) <= Dist2(p, above[k])}

----------------------------------------------------------------------------
(* group_by_scanline and find_runs *)

\* the scanline_id column holds floats: a value v stands for v / IdUnit
IdUnit == 2

\* astype(int): the float is truncated toward zero
AsInt(v) == IF v >= 0 THEN v \div IdUnit ELSE 0 - ((0 - v) \div IdUnit)

RECURSIVE Descending(_)
\* mutant of Ascending: the distinct values in descending order
Descending(S) ==
    IF S = {} THEN <<>> ELSE <<Max(S)>> \o Descending(S \ {Max(S)})

RECURSIVE Ascending(_)
\* np.unique: the distinct values in ascending order
Ascending(S) ==
    IF S = {} THEN <<>> ELSE <<Min(S)>> \o Ascending(S \ {Min(S)})

\* point_cloud[mask]: the rows satisfying the mask, in their order
RECURSIVE Rows(_, _)
Rows(cloud, mask) ==
    IF cloud = <<>> THEN <<>>
    ELSE (IF mask[1] THEN <<Head(cloud)>> ELSE <<>>)
             \o Rows(Tail(cloud), Tail(mask))

group_by_scanline(cloud) ==
    LET scan_ids == [i \in DOMAIN cloud |-> AsInt(cloud[i].scanline_id)]
        unique_ids == Ascending({scan_ids[i] : i \in DOMAIN cloud})
    IN  [g \in DOMAIN unique_ids |->
            Rows(cloud, [i \in DOMAIN cloud |-> scan_ids[i] = unique_ids[g]])]

RECURSIVE ForwardPass(_, _, _, _, _)
\* the loop over i in range(1, num_points) and the append of the last run
ForwardPass(points, threshold, i, run_list, current_run) ==
    IF i > Len(points) THEN Append(run_list, current_run)
    ELSE IF Within(points[i], points[i - 1], threshold)
    THEN ForwardPass(points, threshold, i + 1, run_list,
                     Append(current_run, points[i]))
    ELSE ForwardPass(points, threshold, i + 1,
                     Append(run_list, current_run), <<points[i]>>)

\* mutant of CircularMerge: the last run is put behind the first
CircularMergeBehind(points, threshold, run_list) ==
    IF /\ Within(points[1], points[Len(points)], threshold)
       /\ Len(run_list) > 1
    THEN <<run_list[1] \o run_list[Len(run_list)]>>
             \o SubSeq(run_list, 2, Len(run_list) - 1)
    ELSE run_list

\* the circular case: the last run is put in front of the first
CircularMerge(points, threshold, run_list) ==
    IF /\ Within(points[1], points[Len(points)], threshold)
       /\ Len(run_list) > 1
    THEN <<run_list[Len(run_list)] \o run_list[1]>>
             \o SubSeq(run_list, 2, Len(run_list) - 1)
    ELSE run_list

\* mutant of IndexOutOfBounds: indexing row 0 never fails
IndexNeverFails(points) == FALSE

\* scanline_points[current_run_indices] with current_run_indices = [0]
\* raises IndexError on an array without rows
IndexOutOfBounds(points) == points = <<>>

\* runs after the forward pass; current_run_indices starts as [0]
ForwardRuns(points, threshold) ==
    ForwardPass(points, threshold, 2, <<>>,
                Rows(points, [k \in DOMAIN points |-> k = 1]))

find_runs(points, threshold) ==
    IF IndexOutOfBounds(points) THEN "IndexError"
    ELSE CircularMerge(points, threshold, ForwardRuns(points, threshold))

----------------------------------------------------------------------------
(* SpecRuns: find_runs applied to one scanline                             *)

\* scanlines of at most this many points
MaxScanlinePoints == 4

\* x and y of the points of the scanline, in units of 0.25 (z = 0)
RunCoords == [x : 0..3, y : {0, 1}]

\* find_runs: distance_threshold = 0.5, in units of 0.25
runs_distance_threshold == 2

\* the variables find_runs leaves alone
notRuns == <<point_cloud, entry_cloud, non_ground_indices, scan_idx, run_idx,
             label_counter, global_label_counter, label_equivalences,
             runs_above, runs_current, scanlines, clustered_points,
             points_seen, links, merged, unioned, roots_only, num_points,
             num_iterations, seed_indices, plane, iteration, fits>>

InitRuns ==
    /\ \E n \in 0..MaxScanlinePoints :
        \E c \in [1..n -> RunCoords] :
            scanline_points =
                [i \in 1..n |-> [x |-> c[i].x, y |-> c[i].y, z |-> 0,
                                 true_label |-> i, predicted_label |-> 0,
                                 scanline_id |-> 0]]
    /\ runs = <<>>
    /\ forward_runs = <<>>
    /\ pc = "find_runs"
    /\ point_cloud = <<>>
    /\ entry_cloud = <<>>
    /\ non_ground_indices = <<>>
    /\ scan_idx = 0
    /\ run_idx = 0
    /\ label_counter = 0
    /\ global_label_counter = 0
    /\ label_equivalences = <<>>
    /\ runs_above = <<>>
    /\ runs_current = <<>>
    /\ scanlines = <<>>
    /\ clustered_points = <<>>
    /\ points_seen = 0
    /\ links = {}
    /\ merged = {}
    /\ unioned = {}
    /\ roots_only = TRUE
    /\ num_points = 0
    /\ num_iterations = 0
    /\ seed_indices = {}
    /\ plane = Unbound
    /\ iteration = 0
    /\ fits = <<>>

\* lines 150-163: the forward pass over the consecutive pairs
ForwardPassDone ==
    /\ pc = "find_runs"
    /\ ~IndexOutOfBounds(scanline_points)
    /\ runs' = ForwardRuns(scanline_points, runs_distance_threshold)
    /\ forward_runs' = runs'
    /\ pc' = "forward"
    /\ UNCHANGED scanline_points
    /\ UNCHANGED notRuns

\* line 163 on a scanline without rows: IndexError
ForwardPassRaises ==
    /\ pc = "find_runs"
    /\ IndexOutOfBounds(scanline_points)
    /\ pc' = "error"
    /\ UNCHANGED <<scanline_points, runs, forward_runs>>
    /\ UNCHANGED notRuns

\* lines 165-175: the circular case, and the return of runs
RunsReturned ==
    /\ pc = "forward"
    /\ runs' = CircularMerge(scanline_points, runs_distance_threshold, runs)
    /\ pc' = "returned"
    /\ UNCHANGED <<scanline_points, forward_runs>>
    /\ UNCHANGED notRuns

NextRuns ==
    \/ ForwardPassDone
    \/ ForwardPassRaises
    \/ RunsReturned

SpecRuns == InitRuns /\ [][NextRuns]_vars

----------------------------------------------------------------------------
(* Claims checked under SpecRuns *)

\* the number of points in the runs before run r
Offset(run_list, r) == Len(Vstack(SubSeq(run_list, 1, r - 1)))

\* the run holding the i-th point of the concatenation of the runs
RunAt(run_list, i) ==
    CHOOSE r \in DOMAIN run_list :
        Offset(run_list, r) < i /\ i <= Offset(run_list, r) + Len(run_list[r])

\* the Euclidean distance of points i and j of the scanline is strictly
\* below distance_threshold
Closer(i, j) ==
    Dist2(scanline_points[i], scanline_points[j])
        < runs_distance_threshold * runs_distance_threshold

(* C12: for every non-empty scanline the forward pass puts consecutive    *)
(* points i-1 and i into the same run iff their distance is strictly      *)
(* below distance_threshold; the runs, in order, concatenate to exactly   *)
(* the input sequence and no run is empty.                                *)
C12_ForwardPassSplitsAtThreshold ==
    pc \in {"forward", "returned"} =>
        /\ Vstack(forward_runs) = scanline_points
        /\ \A r \in DOMAIN forward_runs : forward_runs[r] # <<>>
        /\ \A i \in 2..Len(scanline_points) :
              (RunAt(forward_runs, i - 1) = RunAt(forward_runs, i))
                  <=> Closer(i - 1, i)

\* the forward pass split a pair at exactly the threshold and kept together
\* a pair of distinct points below it
C12_Witness ==
    /\ pc = "forward"
    /\ \E i \in 2..Len(scanline_points) :
          /\ Dist2(scanline_points[i - 1], scanline_points[i])
                 = runs_distance_threshold * runs_distance_threshold
          /\ RunAt(runs, i - 1) # RunAt(runs, i)
    /\ \E i \in 2..Len(scanline_points) :
          /\ Dist2(scanline_points[i - 1], scanline_points[i]) > 0
          /\ RunAt(runs, i - 1) = RunAt(runs, i)

(* C13: when the first and the last point are closer than the threshold   *)
(* and the forward pass made k >= 2 runs, find_runs returns k-1 runs, the *)
(* first being the former last run followed by the former first run, the  *)
(* middle runs unchanged, no point lost or duplicated; otherwise it       *)
(* returns the runs of the forward pass unchanged.                        *)
C13_CircularMergeLastBeforeFirst ==
    pc = "returned" =>
        LET k == Len(forward_runs)
        IN  IF Closer(1, Len(scanline_points)) /\ k >= 2
            THEN /\ Len(runs) = k - 1
                 /\ runs[1] = forward_runs[k] \o forward_runs[1]
                 /\ \A j \in 2..(k - 1) : runs[j] = forward_runs[j]
                 /\ Len(Vstack(runs)) = Len(scanline_points)
                 /\ Ids(Vstack(runs)) = Ids(scanline_points)
            ELSE runs = forward_runs

\* a circular merge of three or more runs: a middle run stayed in place
C13_Witness ==
    /\ pc = "returned"
    /\ Len(forward_runs) >= 3
    /\ Len(runs) = Len(forward_runs) - 1
    /\ Closer(1, Len(scanline_points))

(* C17: find_runs applied to a scanline with zero points ends in an error *)
(* and never returns a run list, neither an empty list nor a list with an *)
(* empty run.                                                             *)
C17_EmptyScanlineFailsFast ==
    /\ [](scanline_points = <<>> => (pc \notin {"forward", "returned"} /\ runs = <<>>))
    /\ [][(scanline_points = <<>> /\ pc = "find_runs") => pc' = "error"]_vars

\* the call on an empty scanline has ended in the error
C17_Witness ==
    pc = "error" /\ scanline_points = <<>> /\ point_cloud = <<>>

----------------------------------------------------------------------------
(* SpecGroups: group_by_scanline applied to one array                      *)

\* arrays of at most this many rows
MaxGroupRows == 4

\* scanline ids of the rows: integers, not contiguous, not all positive
GroupIds == {-1, 0, 2}

\* the variables group_by_scanline leaves alone
notGroups == <<entry_cloud, non_ground_indices, scan_idx, run_idx,
               label_counter, global_label_counter, label_equivalences,
               runs_above, runs_current, clustered_points, points_seen,
               links, merged, unioned, roots_only, num_points,
               num_iterations, seed_indices, plane, iteration, fits,
               scanline_points, runs, forward_runs>>

InitGroups ==
    /\ \E n \in 0..MaxGroupRows :
        \E c \in [1..n -> GroupIds] :
            point_cloud =
                [i \in 1..n |-> [x |-> i, y |-> 0, z |-> 0, true_label |-> i,
                                 predicted_label |-> 0,
                                 scanline_id |-> c[i] * IdUnit]]
    /\ scanlines = <<>>
    /\ pc = "group"
    /\ entry_cloud = <<>>
    /\ non_ground_indices = <<>>
    /\ scan_idx = 0
    /\ run_idx = 0
    /\ label_counter = 0
    /\ global_label_counter = 0
    /\ label_equivalences = <<>>
    /\ runs_above = <<>>
    /\ runs_current = <<>>
    /\ clustered_points = <<>>
    /\ points_seen = 0
    /\ links = {}
    /\ merged = {}
    /\ unioned = {}
    /\ roots_only = TRUE
    /\ num_points = 0
    /\ num_iterations = 0
    /\ seed_indices = {}
    /\ plane = Unbound
    /\ iteration = 0
    /\ fits = <<>>
    /\ scanline_points = <<>>
    /\ runs = <<>>
    /\ forward_runs = <<>>

\* lines 131-134: the list of groups is returned
GroupsReturned ==
    /\ pc = "group"
    /\ scanlines' = group_by_scanline(point_cloud)
    /\ pc' = "grouped"
    /\ UNCHANGED point_cloud
    /\ UNCHANGED notGroups

NextGroups == GroupsReturned

SpecGroups == InitGroups /\ [][NextGroups]_vars

----------------------------------------------------------------------------
(* Claims checked under SpecGroups *)

(* C14: group_by_scanline returns exactly one group per distinct          *)
(* scanline_id of its input, the groups in strictly ascending order of    *)
(* scanline id; every input row is in exactly one group, that of its own  *)
(* scanline_id, and rows within a group keep their relative input order.  *)
C14_GroupsPartitionByAscendingId ==
    pc = "grouped" =>
        LET ids == {point_cloud[i].scanline_id : i \in DOMAIN point_cloud}
            all == Vstack(scanlines)
        IN  /\ Len(scanlines) = Cardinality(ids)
            /\ \A g \in DOMAIN scanlines :
                  /\ scanlines[g] # <<>>
                  /\ \A k \in DOMAIN scanlines[g] :
                        /\ scanlines[g][k] \in
                              {point_cloud[i] : i \in DOMAIN point_cloud}
                        /\ scanlines[g][k].scanline_id
                              = scanlines[g][1].scanline_id
                  /\ \A j, k \in DOMAIN scanlines[g] :
                        j < k => scanlines[g][j].true_label
                                    < scanlines[g][k].true_label
            /\ \A g, h \in DOMAIN scanlines :
                  g < h => scanlines[g][1].scanline_id
                              < scanlines[h][1].scanline_id
            /\ Len(all) = Len(point_cloud)
            /\ Ids(all) = Ids(point_cloud)

\* three groups were returned for an array whose rows were not in order of
\* scanline id, one group holding rows that were not adjacent in the array
C14_Witness ==
    /\ pc = "grouped"
    /\ Len(scanlines) = 3
    /\ \E i, j \in DOMAIN point_cloud :
          i < j /\ point_cloud[i].scanline_id > point_cloud[j].scanline_id
    /\ \E g \in DOMAIN scanlines :
          /\ Len(scanlines[g]) >= 2
          /\ scanlines[g][2].true_label > scanlines[g][1].true_label + 1

----------------------------------------------------------------------------
(* scan_line_run_clustering on a whole cloud *)

\* rows of at most this many points
MaxRows == 3

\* x coordinates of the input points, in units of 0.5 (y = z = 0)
Coords == {0, 1, 2}

\* predicted_label values at entry: unclassified, a cluster id, ground
EntryLabels == {0, 4, GROUND}

\* scanline ids of the input (not contiguous)
ScanlineIds == {1, 3}

\* distance_threshold = 0.5, in units of 0.5
distance_threshold == 1

\* merge_threshold = 1.0, in units of 0.5
merge_threshold == 2

\* a row; true_label, which the code never reads, identifies the point
Point(x, id, label, sid) ==
    [x |-> x, y |-> 0, z |-> 0, true_label |-> id,
     predicted_label |-> label, scanline_id |-> sid * IdUnit]

\* mutant of non_ground_mask: every row that is not ground is selected
NotGroundMask(cloud) ==
    [i \in DOMAIN cloud |-> cloud[i].predicted_label # GROUND]

\* non_ground_mask = point_cloud[:, 4] == 0
non_ground_mask(cloud) == [i \in DOMAIN cloud |-> cloud[i].predicted_label = 0]

\* np.nonzero(non_ground_mask)[0]
Nonzero(mask) ==
    LET S == {i \in DOMAIN mask : mask[i]} IN Ascending(S)

Init ==
    /\ \E n \in 0..MaxRows :
        \E c \in [1..n -> [x : Coords, label : EntryLabels, sid : ScanlineIds]] :
            point_cloud = [i \in 1..n |-> Point(c[i].x, i, c[i].label, c[i].sid)]
    /\ entry_cloud = point_cloud
    /\ pc = "start"
    /\ label_counter = 0
    /\ global_label_counter = 0
    /\ label_equivalences = <<>>
    /\ non_ground_indices = <<>>
    /\ scanlines = <<>>
    /\ runs_above = <<>>
    /\ runs_current = <<>>
    /\ clustered_points = <<>>
    /\ scan_idx = 0
    /\ run_idx = 0
    /\ points_seen = 0
    /\ links = {}
    /\ merged = {}
    /\ unioned = {}
    /\ roots_only = TRUE
    /\ num_points = 0
    /\ num_iterations = 0
    /\ seed_indices = {}
    /\ plane = Unbound
    /\ iteration = 0
    /\ fits = <<>>
    /\ scanline_points = <<>>
    /\ runs = <<>>
    /\ forward_runs = <<>>

\* lines 276-282: no row is unclassified, ValueError is raised
RaiseAlreadyClustered ==
    /\ pc = "start"
    /\ \A i \in DOMAIN point_cloud : ~non_ground_mask(point_cloud)[i]
    /\ pc' = "error"
    /\ UNCHANGED <<point_cloud, entry_cloud, non_ground_indices, scan_idx,
                   run_idx, label_counter, global_label_counter,
                   label_equivalences, runs_above, runs_current, scanlines,
                   clustered_points>>
    /\ UNCHANGED <<labelHistory, unionVars, gpfVars, runVars>>

\* lines 276-292: filter, group into scanlines, runs of the first scanline
Enter ==
    /\ pc = "start"
    /\ \E i \in DOMAIN point_cloud : non_ground_mask(point_cloud)[i]
    /\ LET mask == non_ground_mask(point_cloud)
           non_ground_points == Rows(point_cloud, mask)
           groups == group_by_scanline(non_ground_points)
       IN  /\ non_ground_indices' = Nonzero(mask)
           /\ scanlines' = groups
           /\ runs_above' = find_runs(groups[1], distance_threshold)
    /\ label_counter' = 0
    /\ label_equivalences' = <<>>
    /\ run_idx' = 1
    /\ scan_idx' = 1
    /\ pc' = "first"
    /\ UNCHANGED <<point_cloud, entry_cloud, global_label_counter,
                   runs_current, clustered_points>>
    /\ UNCHANGED <<labelHistory, unionVars, gpfVars, runVars>>

\* lines 293-298: one iteration of the loop over the first scanline's runs
LabelFirstRun ==
    /\ pc = "first"
    /\ run_idx <= Len(runs_above)
    /\ LET l == FirstLabel(label_counter)
       IN  /\ label_counter' = l
           /\ runs_above' =
                 [runs_above EXCEPT ![run_idx] = SetLabel(@, l)]
           /\ label_equivalences' = Put(label_equivalences, l, l)
    /\ run_idx' = run_idx + 1
    /\ UNCHANGED <<point_cloud, entry_cloud, non_ground_indices, scan_idx, pc,
                   global_label_counter, runs_current, scanlines,
                   clustered_points>>
    /\ UNCHANGED <<labelHistory, unionVars, gpfVars, runVars>>

\* line 300: scanlines[0] = np.vstack(runs_above)
FirstScanlineLabelled ==
    /\ pc = "first"
    /\ run_idx > Len(runs_above)
    /\ scanlines' = [scanlines EXCEPT ![1] = Vstack(runs_above)]
    /\ scan_idx' = 2
    /\ pc' = "loop"
    /\ UNCHANGED <<point_cloud, entry_cloud, non_ground_indices, run_idx,
                   label_counter, global_label_counter, label_equivalences,
                   runs_above, runs_current, clustered_points>>
    /\ UNCHANGED <<labelHistory, unionVars, gpfVars, runVars>>

\* lines 303-305, 213-216: runs of scanline i and entry of update_labels
EnterUpdateLabels ==
    /\ pc = "loop"
    /\ scan_idx <= Len(scanlines)
    /\ runs_current' = find_runs(scanlines[scan_idx], distance_threshold)
    /\ global_label_counter' = InitialCounter(label_equivalences)
    /\ run_idx' = 1
    /\ pc' = "update"
    /\ UNCHANGED <<point_cloud, entry_cloud, non_ground_indices, scan_idx,
                   label_counter, label_equivalences, runs_above, scanlines,
                   clustered_points>>
    /\ UNCHANGED <<labelHistory, unionVars, gpfVars, runVars>>

\* lines 218-233: one iteration of the loop over runs_current
LabelCurrentRun ==
    /\ pc = "update"
    /\ run_idx <= Len(runs_current)
    /\ LET run == runs_current[run_idx]
           points_above == Vstack(runs_above)
       IN  \E indices \in [DOMAIN run -> DOMAIN points_above] :
              /\ \A k \in DOMAIN run : indices[k] \in Nearest(run[k], points_above)
              /\ LET close_mask ==
                         [k \in DOMAIN run |->
                             Within(run[k], points_above[indices[k]],
                                    merge_threshold)]
                     close_points ==
                         {points_above[indices[k]] :
                             k \in {k \in DOMAIN run : close_mask[k]}}
                     res == LabelRun(label_equivalences, global_label_counter,
                                     run, close_points)
                 IN  /\ runs_current' =
                           [runs_current EXCEPT ![run_idx] = res.run]
                     /\ label_equivalences' = res.mapping
                     /\ global_label_counter' = res.counter
    /\ run_idx' = run_idx + 1
    /\ UNCHANGED <<point_cloud, entry_cloud, non_ground_indices, scan_idx, pc,
                   label_counter, runs_above, scanlines, clustered_points>>
    /\ UNCHANGED <<labelHistory, unionVars, gpfVars, runVars>>

\* mutant of NextRunsAbove: the runs above stay those of an earlier scanline
StaleRunsAbove(above, current) == above

\* line 308: runs_above = runs_current
NextRunsAbove(above, current) == current

\* lines 307-308: scanlines[i] = np.vstack(runs_current), next scanline
LeaveUpdateLabels ==
    /\ pc = "update"
    /\ run_idx > Len(runs_current)
    /\ scanlines' = [scanlines EXCEPT ![scan_idx] = Vstack(runs_current)]
    /\ runs_above' = NextRunsAbove(runs_above, runs_current)
    /\ scan_idx' = scan_idx + 1
    /\ pc' = "loop"
    /\ UNCHANGED <<point_cloud, entry_cloud, non_ground_indices, run_idx,
                   label_counter, global_label_counter, label_equivalences,
                   runs_current, clustered_points>>
    /\ UNCHANGED <<labelHistory, unionVars, gpfVars, runVars>>

\* line 310: clustered_points = extract_clusters(scanlines, ...)
ExtractClusters ==
    /\ pc = "loop"
    /\ scan_idx > Len(scanlines)
    /\ clustered_points' = extract_clusters(scanlines, label_equivalences)
    /\ pc' = "extracted"
    /\ UNCHANGED <<point_cloud, entry_cloud, non_ground_indices, scan_idx,
                   run_idx, label_counter, global_label_counter,
                   label_equivalences, runs_above, runs_current, scanlines>>
    /\ UNCHANGED <<labelHistory, unionVars, gpfVars, runVars>>

\* lines 311-312: the final labels are written into the cloud, return
WriteLabelsBack ==
    /\ pc = "extracted"
    /\ point_cloud' = WriteBack(point_cloud, non_ground_indices,
                                clustered_points)
    /\ pc' = "done"
    /\ UNCHANGED <<entry_cloud, non_ground_indices, scan_idx, run_idx,
                   label_counter, global_label_counter, label_equivalences,
                   runs_above, runs_current, scanlines, clustered_points>>
    /\ UNCHANGED <<labelHistory, unionVars, gpfVars, runVars>>

Next ==
    \/ RaiseAlreadyClustered
    \/ Enter
    \/ LabelFirstRun
    \/ FirstScanlineLabelled
    \/ EnterUpdateLabels
    \/ LabelCurrentRun
    \/ LeaveUpdateLabels
    \/ ExtractClusters
    \/ WriteLabelsBack

Spec == Init /\ [][Next]_vars

----------------------------------------------------------------------------
(* SpecOrder: the same function on clouds of up to three scanlines         *)

\* scanline ids of the input: three scanlines, not contiguous
OrderIds == {1, 3, 4}

\* predicted_label values at entry: unclassified, ground
OrderLabels == {0, GROUND}

InitOrder ==
    /\ \E n \in 0..MaxRows :
        \E c \in [1..n -> [x : Coords, label : OrderLabels, sid : OrderIds]] :
            point_cloud = [i \in 1..n |-> Point(c[i].x, i, c[i].label, c[i].sid)]
    /\ entry_cloud = point_cloud
    /\ pc = "start"
    /\ label_counter = 0
    /\ global_label_counter = 0
    /\ label_equivalences = <<>>
    /\ non_ground_indices = <<>>
    /\ scanlines = <<>>
    /\ runs_above = <<>>
    /\ runs_current = <<>>
    /\ clustered_points = <<>>
    /\ scan_idx = 0
    /\ run_idx = 0
    /\ points_seen = 0
    /\ links = {}
    /\ merged = {}
    /\ unioned = {}
    /\ roots_only = TRUE
    /\ num_points = 0
    /\ num_iterations = 0
    /\ seed_indices = {}
    /\ plane = Unbound
    /\ iteration = 0
    /\ fits = <<>>
    /\ scanline_points = <<>>
    /\ runs = <<>>
    /\ forward_runs = <<>>

SpecOrder == InitOrder /\ [][Next]_vars

----------------------------------------------------------------------------
(* Claims checked under SpecOrder *)

\* the scanline ids of the rows that were unclassified at entry
NonGroundIds ==
    {entry_cloud[i].scanline_id :
        i \in {j \in DOMAIN entry_cloud : entry_cloud[j].predicted_label = 0}}

\* the g-th smallest of these ids
IdOfGroup(g) ==
    CHOOSE v \in NonGroundIds :
        Cardinality({w \in NonGroundIds : w < v}) = g - 1

\* the points of the scanline group of rank g, all of them
PointsOfGroup(g) ==
    {entry_cloud[i].true_label :
        i \in {j \in DOMAIN entry_cloud :
                  /\ entry_cloud[j].predicted_label = 0
                  /\ entry_cloud[j].scanline_id = IdOfGroup(g)}}

\* every point of the runs carries a label
AllLabelled(run_list) ==
    \A r \in DOMAIN run_list : \A k \in DOMAIN run_list[r] :
        run_list[r][k].predicted_label # 0

(* C16: scanlines are labelled one at a time in ascending scanline-id     *)
(* order; the runs of a scanline are labelled only after every run of the *)
(* preceding scanline has been labelled, and the neighbour query for a    *)
(* scanline uses all points of exactly the immediately preceding scanline *)
(* group, with the provisional labels they were given, and no earlier one.*)
C16_ScanlinesInOrderAgainstPrevious ==
    /\ [](pc = "first" =>
            Ids(Vstack(runs_above)) = PointsOfGroup(1))
    /\ [](pc = "update" =>
            /\ Ids(Vstack(runs_current)) = PointsOfGroup(scan_idx)
            /\ Ids(Vstack(runs_above)) = PointsOfGroup(scan_idx - 1)
            /\ Len(Vstack(runs_above)) = Cardinality(PointsOfGroup(scan_idx - 1))
            /\ AllLabelled(runs_above)
            /\ Vstack(runs_above) = scanlines[scan_idx - 1])
    /\ [][/\ scan_idx' \in {scan_idx, scan_idx + 1}
          /\ (scan_idx' # scan_idx /\ pc = "first") => AllLabelled(runs_above)
          /\ (scan_idx' # scan_idx /\ pc = "update") => AllLabelled(runs_current)
          /\ (pc = "update" /\ pc' = "update") =>
                (runs_above' = runs_above /\ scanlines' = scanlines)]_vars

\* the first run of the third scanline has been labelled against the
\* second, for a cloud whose rows were not given in scanline order
C16_Witness ==
    /\ pc = "update"
    /\ scan_idx = 3
    /\ run_idx = 2
    /\ \E i, j \in DOMAIN entry_cloud :
          i < j /\ entry_cloud[i].scanline_id > entry_cloud[j].scanline_id

----------------------------------------------------------------------------
(* Claims checked under Spec *)

\* the final label computed for the point that entered as row i
ComputedFor(i) ==
    LET k == CHOOSE k \in DOMAIN clustered_points :
                 clustered_points[k].true_label = entry_cloud[i].true_label
    IN  clustered_points[k].predicted_label

\* no row of the cloud given to the function is unclassified
NothingToCluster ==
    \A i \in DOMAIN entry_cloud : entry_cloud[i].predicted_label # 0

(* C2: for every row order, the final label written into a non-ground row *)
(* of the original cloud is the final label computed for that same point  *)
(* (the label of the run that contains it), not that of another point.    *)
C2_RowGetsItsOwnLabel ==
    pc = "done" =>
        \A i \in DOMAIN point_cloud :
            entry_cloud[i].predicted_label = 0 =>
                point_cloud[i].predicted_label = ComputedFor(i)

(* C5: on a cloud in which no point has predicted_label == 0 the call     *)
(* ends in the error outcome and never returns a cloud, and the cloud is  *)
(* left exactly as it was at entry.                                       *)
C5_AlreadyClusteredRaises ==
    /\ [](NothingToCluster =>
             /\ pc \in {"start", "error"}
             /\ point_cloud = entry_cloud)
    /\ [][NothingToCluster /\ pc = "start" => pc' = "error"]_vars

\* the error outcome, on a cloud of ground rows and clustered rows
C5_Witness ==
    /\ pc = "error"
    /\ \E i, j \in DOMAIN entry_cloud :
          /\ entry_cloud[i].predicted_label = GROUND
          /\ entry_cloud[j].predicted_label = 4

\* the columns of a row other than predicted_label
OtherColumns(row) ==
    <<row.x, row.y, row.z, row.true_label, row.scanline_id>>

(* C6: only the predicted_label column changes, and only in rows whose    *)
(* predicted_label was 0 at entry: rows that entered non-zero (ground     *)
(* rows in particular), the other columns of every row and the number and *)
(* order of rows are unchanged.                                           *)
C6_OnlyUnclassifiedLabelsChange ==
    /\ Len(point_cloud) = Len(entry_cloud)
    /\ \A i \in DOMAIN point_cloud :
          /\ OtherColumns(point_cloud[i]) = OtherColumns(entry_cloud[i])
          /\ entry_cloud[i].predicted_label # 0 =>
                point_cloud[i].predicted_label = entry_cloud[i].predicted_label

\* a returned cloud with a ground row lying before a row that was relabelled
C6_Witness ==
    /\ pc = "done"
    /\ \E i, j \in DOMAIN point_cloud :
          /\ i < j
          /\ entry_cloud[i].predicted_label = GROUND
          /\ entry_cloud[j].predicted_label = 0
          /\ point_cloud[j].predicted_label # 0

----------------------------------------------------------------------------
(* SpecUnion: the equivalence dict under arbitrary allocations and unions  *)

\* labels allocated in SpecUnion
MaxLabels == 3

\* union calls made in SpecUnion
MaxUnions == 3

InitUnion ==
    /\ pc = "union"
    /\ label_equivalences = <<>>
    /\ global_label_counter = 1
    /\ unioned = {}
    /\ roots_only = TRUE
    /\ point_cloud = <<>>
    /\ entry_cloud = <<>>
    /\ non_ground_indices = <<>>
    /\ scan_idx = 0
    /\ run_idx = 0
    /\ label_counter = 0
    /\ runs_above = <<>>
    /\ runs_current = <<>>
    /\ scanlines = <<>>
    /\ clustered_points = <<>>
    /\ points_seen = 0
    /\ links = {}
    /\ merged = {}
    /\ num_points = 0
    /\ num_iterations = 0
    /\ seed_indices = {}
    /\ plane = Unbound
    /\ iteration = 0
    /\ fits = <<>>
    /\ scanline_points = <<>>
    /\ runs = <<>>
    /\ forward_runs = <<>>

\* assign_new_label: a new label is registered as its own root
Allocate ==
    /\ pc = "union"
    /\ Cardinality(Keys(label_equivalences)) < MaxLabels
    /\ LET a == assign_new_label(label_equivalences, global_label_counter)
       IN  /\ label_equivalences' = a.mapping
           /\ global_label_counter' = a.counter
    /\ UNCHANGED <<point_cloud, pc, label_counter, runs_above, runs_current,
                   scanlines, clustered_points>>
    /\ UNCHANGED <<cloudVars, labelHistory, unionVars, gpfVars, runVars>>

\* inherit_and_unify_labels on any non-empty set of labels of the dict
Union ==
    /\ pc = "union"
    /\ Cardinality(unioned) < MaxUnions
    /\ \E labels \in (SUBSET Keys(label_equivalences)) \ {{}} :
          /\ label_equivalences' =
                inherit_and_unify_labels(label_equivalences, labels).mapping
          /\ unioned' = unioned \cup {labels}
          /\ roots_only' =
                (roots_only /\ \A l \in labels : label_equivalences[l] = l)
    /\ UNCHANGED <<point_cloud, pc, label_counter, global_label_counter,
                   runs_above, runs_current, scanlines, clustered_points>>
    /\ UNCHANGED <<cloudVars, labelHistory, gpfVars, runVars>>

NextUnion == Allocate \/ Union

SpecUnion == InitUnion /\ [][NextUnion]_vars

----------------------------------------------------------------------------
(* Claims checked under SpecUnion *)

resolve(x) == resolve_label(label_equivalences, x)

\* resolve(resolve(x)) == resolve(x) for every label
Idempotent ==
    \A x \in Keys(label_equivalences) : resolve(resolve(x)) = resolve(x)

\* labels unioned in one call, and labels unioned with a common label in
\* two calls, resolve to the same root
Transitive ==
    \A S1, S2 \in unioned :
        S1 \cap S2 # {} =>
            \A a \in S1, c \in S2 : resolve(a) = resolve(c)

(* C9 as stated: for any sequence of union calls, each applied to any     *)
(* non-empty set of labels present in the mapping, resolve is idempotent  *)
(* and transitive (a, b unioned and b, c unioned give                     *)
(* resolve(a) = resolve(c)).                                              *)
C9_ResolveIdempotentTransitive == Idempotent /\ Transitive

(* C9 as amended: the same, for any sequence of union calls each applied  *)
(* to a non-empty set of roots of the mapping (labels resolved before the *)
(* union, as update_labels does).                                         *)
C9_ResolveIdempotentTransitiveOnRoots ==
    roots_only => Idempotent /\ Transitive

\* two unions of roots with a common class have built the chain 3 -> 2 -> 1
C9_Witness ==
    /\ roots_only
    /\ Cardinality(unioned) = 2
    /\ \E S1, S2 \in unioned : S1 # S2 /\ S1 \cap S2 # {}
    /\ \E x \in Keys(label_equivalences) :
          label_equivalences[label_equivalences[x]] # label_equivalences[x]

----------------------------------------------------------------------------
(* Ground plane fitting: refine_ground_plane and its helpers               *)
(* Heights and thresholds are in units of 0.2.                             *)

\* iterations of the refinement loop
MaxIterations == 2

\* height_threshold = 0.4
height_threshold == 2

\* refine_ground_plane: distance_threshold = 0.2
gpf_distance_threshold == 1

\* directions the least-variance direction vh[-1] is drawn from
Directions == {<<0, 0, 1>>, <<1, 0, 1>>}

Dot(n, p) == n[1] * p.x + n[2] * p.y + n[3] * p.z

Norm2(n) == n[1] * n[1] + n[2] * n[2] + n[3] * n[3]

RECURSIVE SumLowest(_, _, _)
\* the sum of the heights of the k first rows of the cloud sorted by height
SumLowest(cloud, rows, k) ==
    IF k = 0 \/ rows = {} THEN 0
    ELSE LET i == CHOOSE i \in rows : \A j \in rows : cloud[i].z <= cloud[j].z
         IN  cloud[i].z + SumLowest(cloud, rows \ {i}, k - 1)

\* mutant of extract_initial_seed_indices: the sum of the lowest rows is
\* divided by n even when the cloud has fewer than n rows
SeedsNotClamped(cloud, n, threshold) ==
    LET total == SumLowest(cloud, DOMAIN cloud, n)
    IN  IF cloud = <<>> THEN {}
        ELSE {i \in DOMAIN cloud : n * cloud[i].z < total + n * threshold}

\* the indices of the rows lower than lpr_height + threshold, where
\* lpr_height = mean(sorted_points[:n, 2]) (nan for an empty slice)
extract_initial_seed_indices(cloud, n, threshold) ==
    LET k == IF n < Len(cloud) THEN n ELSE Len(cloud)
        total == SumLowest(cloud, DOMAIN cloud, k)
    IN  IF k = 0 THEN {}
        ELSE {i \in DOMAIN cloud : k * cloud[i].z < total + k * threshold}

\* a plane of normal n through the centroid of the seed rows:
\* d = -dot(normal, centroid) = num / den
PlaneThrough(cloud, seeds, n) ==
    LET RECURSIVE Total(_)
        Total(rows) ==
            IF rows = {} THEN 0
            ELSE LET i == CHOOSE i \in rows : TRUE
                 IN  Dot(n, cloud[i]) + Total(rows \ {i})
    IN  [kind |-> "plane", normal |-> n, num |-> 0 - Total(seeds),
         den |-> Cardinality(seeds)]

\* normal and d when the covariance matrix is nan
NanPlane == [kind |-> "nan", normal |-> <<0, 0, 0>>, num |-> 0, den |-> 1]

\* np.cov of fewer than two rows is nan, and np.linalg.svd of a nan matrix
\* either raises LinAlgError or returns nan, depending on the build
Degenerate(seeds) == Cardinality(seeds) < 2

\* the planes estimate_ground_plane can return for the seed rows: through
\* their centroid, the normal being the singular vector of least variance
estimate_ground_plane(cloud, seeds) ==
    IF Degenerate(seeds) THEN {NanPlane}
    ELSE {PlaneThrough(cloud, seeds, n) : n \in Directions}

\* mutant of is_ground: a distance equal to the threshold counts as ground
IsGroundInclusive(cloud, pl, threshold) ==
    {i \in DOMAIN cloud :
        /\ pl.kind = "plane"
        /\ LET v == pl.den * Dot(pl.normal, cloud[i]) + pl.num
           IN  v * v <= threshold * threshold * pl.den * pl.den * Norm2(pl.normal)}

\* np.where(np.abs(np.dot(xyz, normal) + d) / norm(normal) < threshold)[0]
is_ground(cloud, pl, threshold) ==
    {i \in DOMAIN cloud :
        /\ pl.kind = "plane"
        /\ threshold > 0
        /\ LET v == pl.den * Dot(pl.normal, cloud[i]) + pl.num
           IN  v * v < threshold * threshold * pl.den * pl.den * Norm2(pl.normal)}

\* point_cloud[seed_indices, 4] = 9
MarkGroundRows(cloud, seeds) ==
    [i \in DOMAIN cloud |->
        IF i \in seeds THEN [cloud[i] EXCEPT !.predicted_label = GROUND]
        ELSE cloud[i]]

InitGpf ==
    /\ \E n \in 0..MaxRows :
        \E c \in [1..n -> [x : {0, 1}, z : {0, 1, 2}, label : {0, 4}]] :
            point_cloud =
                [i \in 1..n |-> [x |-> c[i].x, y |-> 0, z |-> c[i].z,
                                 true_label |-> i,
                                 predicted_label |-> c[i].label,
                                 scanline_id |-> 0]]
    /\ entry_cloud = point_cloud
    /\ num_points \in {1, 2}
    /\ num_iterations \in 0..MaxIterations
    /\ pc = "gpf_start"
    /\ seed_indices = {}
    /\ plane = Unbound
    /\ iteration = 0
    /\ fits = <<>>
    /\ scanline_points = <<>>
    /\ runs = <<>>
    /\ forward_runs = <<>>
    /\ non_ground_indices = <<>>
    /\ scan_idx = 0
    /\ run_idx = 0
    /\ label_counter = 0
    /\ global_label_counter = 0
    /\ label_equivalences = <<>>
    /\ runs_above = <<>>
    /\ runs_current = <<>>
    /\ scanlines = <<>>
    /\ clustered_points = <<>>
    /\ points_seen = 0
    /\ links = {}
    /\ merged = {}
    /\ unioned = {}
    /\ roots_only = TRUE

\* the variables refine_ground_plane leaves alone
notGpf == <<entry_cloud, non_ground_indices, scan_idx, run_idx, label_counter,
            global_label_counter, label_equivalences, runs_above,
            runs_current, scanlines, clustered_points, points_seen, links,
            merged, unioned, roots_only, num_points, num_iterations,
            scanline_points, runs, forward_runs>>

\* lines 95-99: the initial seeds
SelectSeeds ==
    /\ pc = "gpf_start"
    /\ seed_indices' =
          extract_initial_seed_indices(point_cloud, num_points, height_threshold)
    /\ pc' = "gpf_loop"
    /\ UNCHANGED <<point_cloud, plane, iteration, fits>>
    /\ UNCHANGED notGpf

\* lines 101-112: one iteration of the refinement loop
FitAndClassify ==
    /\ pc = "gpf_loop"
    /\ iteration < num_iterations
    /\ \E fit \in estimate_ground_plane(point_cloud, seed_indices) :
          /\ plane' = fit
          /\ seed_indices' = is_ground(point_cloud, fit, gpf_distance_threshold)
          /\ fits' = Append(fits, [seeds |-> seed_indices, plane |-> fit])
    /\ iteration' = iteration + 1
    /\ UNCHANGED <<point_cloud, pc>>
    /\ UNCHANGED notGpf

\* line 103: the plane estimation raises LinAlgError
FitRaises ==
    /\ pc = "gpf_loop"
    /\ iteration < num_iterations
    /\ Degenerate(seed_indices)
    /\ pc' = "error"
    /\ UNCHANGED <<point_cloud, seed_indices, plane, iteration, fits>>
    /\ UNCHANGED notGpf

\* lines 115-117: the last seed set is marked ground; the return raises
\* UnboundLocalError when no iteration has bound normal and d
MarkGround ==
    /\ pc = "gpf_loop"
    /\ iteration = num_iterations
    /\ point_cloud' = MarkGroundRows(point_cloud, seed_indices)
    /\ pc' = IF plane.kind = "unbound" THEN "error" ELSE "done"
    /\ UNCHANGED <<seed_indices, plane, iteration, fits>>
    /\ UNCHANGED notGpf

NextGpf ==
    \/ SelectSeeds
    \/ FitAndClassify
    \/ FitRaises
    \/ MarkGround

SpecGpf == InitGpf /\ [][NextGpf]_vars

----------------------------------------------------------------------------
(* Claims checked under SpecGpf *)

\* the point-to-plane distance of the row is strictly below the threshold:
\* |normal . p + d| < threshold * |normal|, with d = num / den
StrictlyBelow(row, pl, threshold) ==
    /\ pl.kind = "plane"
    /\ LET v == pl.den * Dot(pl.normal, row) + pl.num
           a == IF v < 0 THEN 0 - v ELSE v
       IN  a * a < threshold * threshold * pl.den * pl.den * Norm2(pl.normal)

(* C7: for num_iterations >= 1, the rows marked 9 are exactly the rows    *)
(* whose distance to the plane fitted in the last iteration (to the seed  *)
(* set of the previous iteration, or of the seed selector for the first)  *)
(* is strictly below distance_threshold; every other row keeps its entry  *)
(* label, no other column changes, and the plane returned is the last     *)
(* iteration's plane.                                                     *)
C7_GroundIsLastPlaneInliers ==
    (pc = "done" /\ num_iterations >= 1) =>
        LET last == fits[num_iterations]
            before ==
                IF num_iterations = 1
                THEN extract_initial_seed_indices(entry_cloud, num_points,
                                                  height_threshold)
                ELSE {i \in DOMAIN entry_cloud :
                         StrictlyBelow(entry_cloud[i],
                                       fits[num_iterations - 1].plane,
                                       gpf_distance_threshold)}
        IN  /\ Len(fits) = num_iterations
            /\ plane = last.plane
            /\ last.seeds = before
            /\ last.plane \in estimate_ground_plane(entry_cloud, before)
            /\ Len(point_cloud) = Len(entry_cloud)
            /\ \A i \in DOMAIN point_cloud :
                  /\ OtherColumns(point_cloud[i]) = OtherColumns(entry_cloud[i])
                  /\ point_cloud[i].predicted_label =
                        IF StrictlyBelow(entry_cloud[i], last.plane,
                                         gpf_distance_threshold)
                        THEN GROUND
                        ELSE entry_cloud[i].predicted_label

\* two iterations have run, the second on another seed set than the first,
\* and the returned cloud has a ground row and a row that kept its label 4
C7_Witness ==
    /\ pc = "done"
    /\ num_iterations = 2
    /\ fits[1].seeds # fits[2].seeds
    /\ \E i, j \in DOMAIN point_cloud :
          /\ point_cloud[i].predicted_label = GROUND
          /\ entry_cloud[i].predicted_label # GROUND
          /\ point_cloud[j].predicted_label = 4

----------------------------------------------------------------------------
(* SpecSeeds: extract_initial_seed_indices applied to one array            *)

\* arrays of at most this many rows
MaxSeedRows == 3

\* heights z of the rows, in units of 0.2 (x = y = 0)
SeedHeights == 0..4

\* the variables extract_initial_seed_indices leaves alone
notSeeds == <<entry_cloud, non_ground_indices, scan_idx, run_idx,
              label_counter, global_label_counter, label_equivalences,
              runs_above, runs_current, scanlines, clustered_points,
              points_seen, links, merged, unioned, roots_only,
              num_iterations, plane, iteration, fits, scanline_points, runs,
              forward_runs>>

InitSeeds ==
    /\ \E n \in 0..MaxSeedRows :
        \E c \in [1..n -> SeedHeights] :
            point_cloud =
                [i \in 1..n |-> [x |-> 0, y |-> 0, z |-> c[i],
                                 true_label |-> i, predicted_label |-> 0,
                                 scanline_id |-> 0]]
    /\ num_points \in 1..(MaxSeedRows + 1)
    /\ seed_indices = {}
    /\ pc = "seeds"
    /\ entry_cloud = <<>>
    /\ non_ground_indices = <<>>
    /\ scan_idx = 0
    /\ run_idx = 0
    /\ label_counter = 0
    /\ global_label_counter = 0
    /\ label_equivalences = <<>>
    /\ runs_above = <<>>
    /\ runs_current = <<>>
    /\ scanlines = <<>>
    /\ clustered_points = <<>>
    /\ points_seen = 0
    /\ links = {}
    /\ merged = {}
    /\ unioned = {}
    /\ roots_only = TRUE
    /\ num_iterations = 0
    /\ plane = Unbound
    /\ iteration = 0
    /\ fits = <<>>
    /\ scanline_points = <<>>
    /\ runs = <<>>
    /\ forward_runs = <<>>

\* lines 28-36: the indices of the seeds are returned
SeedsReturned ==
    /\ pc = "seeds"
    /\ seed_indices' =
          extract_initial_seed_indices(point_cloud, num_points, height_threshold)
    /\ pc' = "seeded"
    /\ UNCHANGED <<point_cloud, num_points>>
    /\ UNCHANGED notSeeds

NextSeeds == SeedsReturned

SpecSeeds == InitSeeds /\ [][NextSeeds]_vars

----------------------------------------------------------------------------
(* Claims checked under SpecSeeds *)

\* the sets of k rows of the cloud that no other row is lower than
LowestSets(cloud, k) ==
    {L \in SUBSET (DOMAIN cloud) :
        /\ Cardinality(L) = k
        /\ \A i \in L : \A j \in (DOMAIN cloud) \ L : cloud[i].z <= cloud[j].z}

RECURSIVE SumZ(_, _)
\* the sum of the heights of a set of rows
SumZ(cloud, rows) ==
    IF rows = {} THEN 0
    ELSE LET i == CHOOSE i \in rows : TRUE
         IN  cloud[i].z + SumZ(cloud, rows \ {i})

\* the rows strictly lower than LPR + threshold, LPR being the mean height
\* of the rows L: z < SumZ(L) / |L| + threshold
BelowLpr(cloud, L, threshold) ==
    {i \in DOMAIN cloud :
        Cardinality(L) * cloud[i].z
            < SumZ(cloud, L) + Cardinality(L) * threshold}

(* C15: extract_initial_seed_indices returns exactly the indices of all   *)
(* points whose height z is strictly below LPR + height_threshold, LPR    *)
(* being the mean height of the min(num_points, N) lowest points; a       *)
(* num_points larger than N is clamped to N and produces no error.        *)
C15_SeedsAreBelowLprPlusThreshold ==
    pc = "seeded" =>
        LET N == Len(point_cloud)
            k == IF num_points < N THEN num_points ELSE N
        IN  \A L \in LowestSets(point_cloud, k) :
                seed_indices = BelowLpr(point_cloud, L, height_threshold)

\* num_points was larger than the number of rows, and a row at exactly
\* LPR + height_threshold or above was left out of the seeds
C15_Witness ==
    /\ pc = "seeded"
    /\ num_points > Len(point_cloud)
    /\ seed_indices # {}
    /\ seed_indices # DOMAIN point_cloud

====
